---- MODULE Spec2Model ----
(***************************************************************************)
(* The whiteboard relay server of src/server.js as a state machine.        *)
(*                                                                         *)
(* One action per event-loop callback: every handler runs to completion    *)
(* before the next one starts (Node's single thread), so a handler is one  *)
(* atomic step.  A connection is the `ws` object of one handshake; the     *)
(* handshakes are numbered 1, 2, ... in the order they arrive, which is    *)
(* also the insertion order of wss.clients and of the `clients` Map.       *)
(*                                                                         *)
(* The clock advances with the sweep timer, one period (2 minutes) per     *)
(* expiry; what happens between two expiries reads the time of the earlier *)
(* one.  The 30 s probe interval is abstracted from the clock: an armed    *)
(* probe timer may fire at any moment.                                     *)
(***************************************************************************)
EXTENDS Integers, Sequences, FiniteSets

(***************************************************************************)
(* Bounds of the model.                                                    *)
(***************************************************************************)
MaxConns  == 3     \* handshakes in one run
MaxMsgs   == 1     \* inbound frames (messages, pongs) in one run of Spec and SpecFault
ExtraMsgs == 1     \* further inbound frames in one run of SpecFull
MaxTicks  == 3     \* sweep periods that elapse in one run
MaxFaults == 1     \* connections whose send()/ping() throws (SpecFault only)
Room      == 0     \* InitFull: room left in the history before it is full

(***************************************************************************)
(* Program constants.                                                      *)
(***************************************************************************)
MAX_HISTORY         == 100
InactivityThreshold == 5 * 60 * 1000
SweepPeriod         == 2 * 60 * 1000
NORMAL_CLOSURE      == 1000
UNAUTHORIZED        == 401

NoOrigin == ""     \* info.origin absent (falsy)
allowedOrigins ==
    { "https://whiteboard-frontend-ikhrz0fz2-creatorramas-projects.vercel.app",
      "http://127.0.0.1:5173" }
Origins == {NoOrigin, "http://127.0.0.1:5173", "https://evil.example"}

Conns == 1..MaxConns

VARIABLES
    proc,            \* "running", "draining" (shutdown() has run), "exited"
    exitCode,        \* process exit code once proc = "exited", else -1
    exitCause,       \* "none", "graceful", "forced", "uncaught"
    now,             \* the clock, in ms
    nextId,          \* number of the next connection
    readyState,      \* ws.readyState: "NONE" (no ws object), "OPEN", "CLOSING", "CLOSED"
    closeCode,       \* code the server passed to ws.close(), 0 if it never did
    wssClients,      \* wss.clients
    clients,         \* keys of the `clients` Map
    lastActivity,    \* clients.get(ws).lastActivity
    lastPong,        \* clients.get(ws).lastPong, NoPong while the entry has no such field
    pingInterval,    \* pingInterval[c]: the probe timer of c is armed
    drawingHistory,  \* drawingHistory
    appended,        \* every action ever pushed, in push order (history variable)
    delivered,       \* delivered[c]: what the latest callback delivered to c, in order
    firstMsg,        \* firstMsg[c]: the first message ever delivered to c (history variable)
    drawsTo,         \* drawsTo[c]: the actions of the DRAW broadcasts delivered to c, in order (history variable)
    notices,         \* notices[c]: shutdown notices delivered to c so far (history variable)
    faulty,          \* connections whose send()/ping() throws
    msgsLeft,        \* inbound frames (messages, pongs) the run may still handle
    doneCalls,       \* the done(...) calls the latest callback made, in order
    status           \* the HTTP status the latest callback refused an upgrade with, else 0

vars == << proc, exitCode, exitCause, now, nextId, readyState, closeCode,
           wssClients, clients, lastActivity, lastPong, pingInterval,
           drawingHistory, appended, delivered, firstMsg, drawsTo, notices, faulty, msgsLeft, doneCalls,
           status >>

(***************************************************************************)
(* Values.                                                                 *)
(***************************************************************************)
NoPong    == -1    \* clientInfo.lastPong is undefined
NoClient  == 0     \* excludeClient = null; also "no clientId field" in a payload
NoPayload == [shape |-> 0, clientId |-> NoClient, timestamp |-> -1]

\* data.data of a DRAW frame: an opaque shape, and possibly fields of its own
\* named clientId and timestamp (NoClient / -1: the field is absent).
Payloads == { [shape |-> 1, clientId |-> NoClient, timestamp |-> -1],
              [shape |-> 2, clientId |-> 1,        timestamp |-> 7] }

\* An inbound frame.  ok = FALSE: the text is not JSON.
Frames ==
    { [ok |-> TRUE, type |-> "DRAW", data |-> p, Name |-> "", res |-> ""] : p \in Payloads }
    \cup { [ok |-> TRUE,  type |-> "CHAT",  data |-> NoPayload, Name |-> "ann", res |-> "hi"],
           [ok |-> TRUE,  type |-> "PING",  data |-> NoPayload, Name |-> "",    res |-> ""],
           [ok |-> TRUE,  type |-> "ERASE", data |-> NoPayload, Name |-> "",    res |-> ""],
           [ok |-> FALSE, type |-> "",      data |-> NoPayload, Name |-> "",    res |-> ""] }
NoFrame == [ok |-> FALSE, type |-> "-", data |-> NoPayload, Name |-> "", res |-> ""]

\* Mutant: the newcomer is sent an empty history.
InitMsg_empty(h) == [type |-> "INIT", data |-> << >>]
InitMsg(h)    == [type |-> "INIT",   data |-> h]
SystemMsg(m)  == [type |-> "SYSTEM", message |-> m]
DrawMsg(a)    == [type |-> "DRAW",   data |-> a]
\* Mutant: the two fields exchanged.
ChatMsg_swapped(n, r) == [type |-> "CHAT",   Name |-> r, res |-> n]
ChatMsg(n, r) == [type |-> "CHAT",   Name |-> n, res |-> r]
PongMsg(t)    == [type |-> "PONG",   timestamp |-> t]

WelcomeNotice  == SystemMsg("Connected to whiteboard server")
\* Mutant: the newcomer's greeting is what the others are sent.
JoinNotice_welcome == SystemMsg("Connected to whiteboard server")
JoinNotice     == SystemMsg("A new user has joined the whiteboard")
LeaveNotice    == SystemMsg("A user has left the whiteboard")
ShutdownNotice == SystemMsg("Server is shutting down...")

Accept == [ok |-> TRUE,  code |-> 0]
Reject == [ok |-> FALSE, code |-> UNAUTHORIZED]

(***************************************************************************)
(* Helpers, one per piece of code.                                         *)
(***************************************************************************)
\* Mutant: every origin passes.
OriginAllowed_any(o) == TRUE

\* verifyClient's test of the origin.
OriginAllowed(o) == o = NoOrigin \/ o \in allowedOrigins

\* The done(...) calls verifyClient makes for origin o, in order: the verdict
\* of the origin test, then the unconditional done(true) that ends the function.
verifyClient(o) == << IF OriginAllowed(o) THEN Accept ELSE Reject, Accept >>

\* What the handshake becomes: the first verdict upgrades the socket or ends
\* it with the reject status; a socket that was ended cannot be upgraded by a
\* later verdict.
Upgraded(vs) == vs[1].ok

\* Mutant: the payload is spread last, its fields win.
MakeAction_payloadWins(payload, clientId, t) ==
    [shape |-> payload.shape,
     clientId |-> IF payload.clientId # NoClient THEN payload.clientId ELSE clientId,
     timestamp |-> IF payload.timestamp # -1 THEN payload.timestamp ELSE t]

\* { ...data.data, clientId, timestamp: Date.now() }: the server's fields are
\* spread last and replace fields of the same name in the payload.
MakeAction(payload, clientId, t) ==
    [shape |-> payload.shape, clientId |-> clientId, timestamp |-> t]

\* Mutant: pop() instead of shift(), the newest entry is the one dropped.
PushHistory_pop(h, a) ==
    LET h1 == Append(h, a)
    IN  IF Len(h1) > MAX_HISTORY THEN SubSeq(h1, 1, Len(h1) - 1) ELSE h1

\* Mutant: unshift() instead of push(), the new action goes to the front.
PushHistory_unshift(h, a) ==
    LET h1 == << a >> \o h
    IN  IF Len(h1) > MAX_HISTORY THEN SubSeq(h1, 1, MAX_HISTORY) ELSE h1

\* drawingHistory.push(action), then one shift() when the length passed MAX_HISTORY.
PushHistory(h, a) ==
    LET h1 == Append(h, a)
    IN  IF Len(h1) > MAX_HISTORY THEN Tail(h1) ELSE h1

\* Mutant: the welcome is sent before the history.
InitialMessages_welcomeFirst(h) == << WelcomeNotice, InitMsg(h) >>

\* What the 'connection' handler sends the new client, in order.
InitialMessages(h) == << InitMsg(h), WelcomeNotice >>

\* ws.send(m): the message reaches c when the socket is open and send() does
\* not throw.
Deliverable(rs, c) == rs[c] = "OPEN" /\ c \notin faulty

\* Mutant: the reply goes to every open client.
Send_all(ob, rs, c, m) ==
    [ x \in Conns |-> IF Deliverable(rs, x) THEN Append(ob[x], m) ELSE ob[x] ]

Send(ob, rs, c, m) ==
    IF Deliverable(rs, c) THEN [ob EXCEPT ![c] = Append(@, m)] ELSE ob

\* Mutant: the sender is not excluded.
Recipients_all(wc, rs, excludeClient) == { c \in wc : rs[c] = "OPEN" }

\* The clients broadcastMessage calls send() on.
Recipients(wc, rs, excludeClient) ==
    { c \in wc : c # excludeClient /\ rs[c] = "OPEN" }

\* Mutant: no try block, the first throwing send() ends the forEach (which
\* walks wss.clients in insertion order).
broadcastMessage_abort(ob, wc, rs, m, excludeClient) ==
    [ c \in Conns |->
        IF /\ c \in Recipients(wc, rs, excludeClient)
           /\ \A x \in Recipients(wc, rs, excludeClient) \cap faulty : c < x
        THEN Append(ob[c], m) ELSE ob[c] ]

\* broadcastMessage: a throwing send() is caught per recipient.
broadcastMessage(ob, wc, rs, m, excludeClient) ==
    [ c \in Conns |->
        IF c \in Recipients(wc, rs, excludeClient) /\ c \notin faulty
        THEN Append(ob[c], m) ELSE ob[c] ]

\* Mutant: the subtraction reversed.
Inactive_reversed(t, last) == last - t > InactivityThreshold

\* The sweep's test of one registry entry.
Inactive(t, last) == t - last > InactivityThreshold

\* Mutant: whatever is not a DRAW or a CHAT is answered like a PING.
IsPing_default(f) == ~(f.ok /\ f.type \in {"DRAW", "CHAT"})

\* The last branch of the 'message' handler: the text parsed and its type is
\* PING.  A text that does not parse throws out of JSON.parse into the catch;
\* a type that matches no branch falls through.
IsPing(f) == f.ok /\ f.type = "PING"

\* Mutant: terminate() leaves the socket as it is.
Terminate_noop(rs, c) == rs

\* ws.terminate(): a socket that is not CLOSED is destroyed.
Terminate(rs, c) == IF rs[c] # "CLOSED" THEN [rs EXCEPT ![c] = "CLOSING"] ELSE rs

Alive == proc # "exited"

NoMsg     == [type |-> "NONE"]
PingFrame == [type |-> "ping"]           \* the control frame ws.ping() sends
Nothing   == [c \in Conns |-> << >>]

\* The actions of the DRAW messages in q, in order.
DrawsIn(q) ==
    LET ds == SelectSeq(q, LAMBDA m : m.type = "DRAW")
    IN  [ i \in 1..Len(ds) |-> ds[i].data ]

\* What a callback put on the wire: the messages it delivered, and for a
\* handshake the verdicts and the refusal status.  The history variables
\* follow the deliveries.
Output(d, calls, st) ==
    /\ delivered' = d
    /\ doneCalls' = calls
    /\ status' = st
    /\ firstMsg' = [ c \in Conns |->
                       IF firstMsg[c] = NoMsg /\ d[c] # << >> /\ d[c][1] # PingFrame
                       THEN d[c][1] ELSE firstMsg[c] ]
    /\ drawsTo' = [ c \in Conns |-> drawsTo[c] \o DrawsIn(d[c]) ]
    /\ notices' = [ c \in Conns |->
                      notices[c] + Cardinality({ i \in 1..Len(d[c]) : d[c][i] = ShutdownNotice }) ]

Record(d) == Output(d, << >>, 0)

(***************************************************************************)
(* Initial state: the module has been loaded, nobody has connected.        *)
(***************************************************************************)
Init ==
    /\ proc = "running" /\ exitCode = -1 /\ exitCause = "none"
    /\ now = 0
    /\ nextId = 1
    /\ readyState = [c \in Conns |-> "NONE"]
    /\ closeCode = [c \in Conns |-> 0]
    /\ wssClients = {}
    /\ clients = {}
    /\ lastActivity = [c \in Conns |-> 0]
    /\ lastPong = [c \in Conns |-> NoPong]
    /\ pingInterval = [c \in Conns |-> FALSE]
    /\ drawingHistory = << >>
    /\ appended = << >>
    /\ delivered = Nothing
    /\ firstMsg = [c \in Conns |-> NoMsg]
    /\ drawsTo = [c \in Conns |-> << >>]
    /\ notices = [c \in Conns |-> 0]
    /\ faulty = {}
    /\ msgsLeft = MaxMsgs
    /\ doneCalls = << >>
    /\ status = 0

(***************************************************************************)
(* A handshake with origin o arrives: verifyClient, and for an upgraded    *)
(* socket the whole 'connection' handler.  `repeat` is what the second     *)
(* done(true) does to a socket the first verdict has already upgraded:     *)
(* the library either drops it ("ignored") or raises out of the upgrade    *)
(* path ("raises"), which nothing catches and which ends the process.      *)
(***************************************************************************)
Handshake(o, repeat) ==
    LET c   == nextId
        vs  == verifyClient(o)
        rs1 == [readyState EXCEPT ![c] = "OPEN"]
        wc1 == wssClients \cup {c}
        \* INIT and the welcome share one try block: a throwing send skips both
        d1  == IF Deliverable(rs1, c)
               THEN [Nothing EXCEPT ![c] = InitialMessages(drawingHistory)]
               ELSE Nothing
    IN  /\ proc = "running"
        /\ IF Upgraded(vs)
           THEN /\ nextId <= MaxConns
                /\ nextId' = nextId + 1
                /\ readyState' = rs1
                /\ wssClients' = wc1
                /\ clients' = clients \cup {c}
                /\ lastActivity' = [lastActivity EXCEPT ![c] = now]
                /\ pingInterval' = [pingInterval EXCEPT ![c] = TRUE]
                /\ Output(broadcastMessage(d1, wc1, rs1, JoinNotice, c), vs, 0)
                /\ IF repeat = "raises"
                   THEN proc' = "exited" /\ exitCode' = 1 /\ exitCause' = "uncaught"
                   ELSE UNCHANGED << proc, exitCode, exitCause >>
           ELSE /\ repeat = "ignored"
                /\ Output(Nothing, vs, vs[1].code)
                /\ UNCHANGED << nextId, readyState, wssClients, clients,
                                lastActivity, pingInterval, proc, exitCode,
                                exitCause >>
        /\ UNCHANGED << now, closeCode, drawingHistory, appended,
                        faulty, msgsLeft, lastPong >>

(***************************************************************************)
(* ws.on('message'): frame f arrives from connection c.  The library       *)
(* emits 'message' until the socket's 'close' event, so a frame in flight  *)
(* can still arrive after the server has started closing the connection.   *)
(***************************************************************************)
Message(c, f) ==
    LET action == MakeAction(f.data, c, now)
    IN  /\ Alive
        /\ readyState[c] \in {"OPEN", "CLOSING"}
        /\ msgsLeft > 0
        /\ msgsLeft' = msgsLeft - 1
        /\ lastActivity' = IF c \in clients
                           THEN [lastActivity EXCEPT ![c] = now]
                           ELSE lastActivity
        /\ IF f.ok /\ f.type = "DRAW"
           THEN /\ drawingHistory' = PushHistory(drawingHistory, action)
                /\ appended' = Append(appended, action)
                /\ Record(broadcastMessage(Nothing, wssClients, readyState,
                                           DrawMsg(action), c))
           ELSE IF f.ok /\ f.type = "CHAT"
           THEN /\ Record(broadcastMessage(Nothing, wssClients, readyState,
                                           ChatMsg(f.Name, f.res), NoClient))
                /\ UNCHANGED << drawingHistory, appended >>
           ELSE IF IsPing(f)
           THEN /\ Record(Send(Nothing, readyState, c, PongMsg(now)))
                /\ UNCHANGED << drawingHistory, appended >>
           ELSE /\ Record(Nothing)
                /\ UNCHANGED << drawingHistory, appended >>
        /\ UNCHANGED << proc, exitCode, exitCause, now, nextId,
                        readyState, closeCode, wssClients, clients,
                        pingInterval, faulty, lastPong >>

(***************************************************************************)
(* ws.on('close'): the socket of c has closed (the peer left, or the       *)
(* server closed or destroyed it).  The library takes c out of wss.clients *)
(* before the handler runs.                                                *)
(***************************************************************************)
\* Mutant: the handler forgets clients.delete(ws).
Close_keepsEntry(c) ==
    LET rs1 == [readyState EXCEPT ![c] = "CLOSED"]
        wc1 == wssClients \ {c}
    IN  /\ Alive
        /\ readyState[c] \in {"OPEN", "CLOSING"}
        /\ readyState' = rs1
        /\ wssClients' = wc1
        /\ pingInterval' = [pingInterval EXCEPT ![c] = FALSE]
        /\ Record(broadcastMessage(Nothing, wc1, rs1, LeaveNotice, NoClient))
        /\ UNCHANGED << proc, exitCode, exitCause, now, nextId, closeCode,
                        drawingHistory, appended, faulty, msgsLeft,
                        clients, lastActivity, lastPong >>

Close(c) ==
    LET rs1 == [readyState EXCEPT ![c] = "CLOSED"]
        wc1 == wssClients \ {c}
    IN  /\ Alive
        /\ readyState[c] \in {"OPEN", "CLOSING"}
        /\ readyState' = rs1
        /\ wssClients' = wc1
        /\ pingInterval' = [pingInterval EXCEPT ![c] = FALSE]
        /\ clients' = clients \ {c}
        /\ lastActivity' = [lastActivity EXCEPT ![c] = 0]
        /\ lastPong' = [lastPong EXCEPT ![c] = NoPong]
        /\ Record(broadcastMessage(Nothing, wc1, rs1, LeaveNotice, NoClient))
        /\ UNCHANGED << proc, exitCode, exitCause, now, nextId, closeCode,
                        drawingHistory, appended, faulty, msgsLeft >>

(***************************************************************************)
(* ws.on('pong'): a pong frame of c arrives, in answer to a probe or        *)
(* unsolicited.  Like a message, it can still arrive while the socket is   *)
(* closing.                                                                *)
(***************************************************************************)
\* Mutant: a pong counts as activity.
Pong_touch(c) ==
    /\ Alive
    /\ readyState[c] \in {"OPEN", "CLOSING"}
    /\ msgsLeft > 0
    /\ msgsLeft' = msgsLeft - 1
    /\ lastPong' = IF c \in clients
                   THEN [lastPong EXCEPT ![c] = now]
                   ELSE lastPong
    /\ lastActivity' = IF c \in clients
                       THEN [lastActivity EXCEPT ![c] = now]
                       ELSE lastActivity
    /\ Record(Nothing)
    /\ UNCHANGED << proc, exitCode, exitCause, now, nextId, readyState,
                    closeCode, wssClients, clients, pingInterval,
                    drawingHistory, appended, faulty >>

Pong(c) ==
    /\ Alive
    /\ readyState[c] \in {"OPEN", "CLOSING"}
    /\ msgsLeft > 0
    /\ msgsLeft' = msgsLeft - 1
    /\ lastPong' = IF c \in clients
                   THEN [lastPong EXCEPT ![c] = now]
                   ELSE lastPong
    /\ Record(Nothing)
    /\ UNCHANGED << proc, exitCode, exitCause, now, nextId, readyState,
                    closeCode, wssClients, clients, lastActivity, pingInterval,
                    drawingHistory, appended, faulty >>

(***************************************************************************)
(* ws.on('error'): the library reports an error of c's socket (a frame     *)
(* that violates the protocol, say).  It has started closing the socket    *)
(* by then; the handler only cancels the probe timer.                      *)
(***************************************************************************)
Error(c) ==
    /\ Alive
    /\ readyState[c] \in {"OPEN", "CLOSING"}
    /\ readyState' = [readyState EXCEPT ![c] = "CLOSING"]
    /\ pingInterval' = [pingInterval EXCEPT ![c] = FALSE]
    /\ Record(Nothing)
    /\ UNCHANGED << proc, exitCode, exitCause, now, nextId, closeCode,
                    wssClients, clients, lastActivity, lastPong,
                    drawingHistory, appended, faulty, msgsLeft >>

(***************************************************************************)
(* The probe timer of c fires.                                             *)
(***************************************************************************)
Probe(c) ==
    /\ Alive
    /\ pingInterval[c]
    /\ IF readyState[c] = "OPEN"
       THEN IF c \notin faulty
            THEN /\ Record([Nothing EXCEPT ![c] = << PingFrame >>])
                 /\ UNCHANGED << pingInterval, readyState >>
            ELSE \* ws.ping() threw
                 /\ pingInterval' = [pingInterval EXCEPT ![c] = FALSE]
                 /\ readyState' = Terminate(readyState, c)
                 /\ Record(Nothing)
       ELSE /\ pingInterval' = [pingInterval EXCEPT ![c] = FALSE]
            /\ Record(Nothing)
            /\ UNCHANGED readyState
    /\ UNCHANGED << proc, exitCode, exitCause, now, nextId,
                    closeCode, wssClients, clients, lastActivity,
                    drawingHistory, appended, faulty, msgsLeft, lastPong >>

(***************************************************************************)
(* The sweep timer expires, one period after its previous expiry, and the  *)
(* inactivity sweep runs.  An entry the sweep deletes is gone from the     *)
(* Map, and its timestamp with it.                                         *)
(***************************************************************************)
\* Mutant: the sweep evicts every entry.
SweepVictims_all(t) == clients

SweepVictims(t) == { c \in clients : Inactive(t, lastActivity[c]) }

Sweep ==
    LET t == now + SweepPeriod
    IN  /\ Alive
        /\ now < MaxTicks * SweepPeriod
        /\ now' = t
        /\ readyState' = [ c \in Conns |->
                             IF c \in SweepVictims(t)
                             THEN Terminate(readyState, c)[c] ELSE readyState[c] ]
        /\ clients' = clients \ SweepVictims(t)
        /\ lastActivity' = [ c \in Conns |->
                               IF c \in SweepVictims(t) THEN 0 ELSE lastActivity[c] ]
        /\ lastPong' = [ c \in Conns |->
                           IF c \in SweepVictims(t) THEN NoPong ELSE lastPong[c] ]
        /\ Record(Nothing)
        /\ UNCHANGED << proc, exitCode, exitCause, nextId, closeCode,
                        wssClients, pingInterval, drawingHistory, appended,
                        faulty, msgsLeft >>

(***************************************************************************)
(* shutdown(): SIGINT or SIGTERM.  wss.clients is walked in insertion      *)
(* order; send() is not inside a try block here, so a throwing send ends   *)
(* the walk and leaves shutdown() as an uncaught exception.  server.close  *)
(* stops the endpoint from taking new handshakes.                          *)
(***************************************************************************)
RECURSIVE ShutdownWalk(_, _, _, _)
ShutdownWalk(i, d, rs, cc) ==
    IF i > MaxConns
    THEN [d |-> d, rs |-> rs, cc |-> cc, threw |-> FALSE]
    ELSE IF i \in wssClients /\ rs[i] = "OPEN"
         THEN IF i \in faulty
              THEN [d |-> d, rs |-> rs, cc |-> cc, threw |-> TRUE]
              ELSE ShutdownWalk(i + 1,
                                [d EXCEPT ![i] = Append(@, ShutdownNotice)],
                                [rs EXCEPT ![i] = "CLOSING"],
                                [cc EXCEPT ![i] = NORMAL_CLOSURE])
         ELSE ShutdownWalk(i + 1, d, rs, cc)

Shutdown ==
    LET w == ShutdownWalk(1, Nothing, readyState, closeCode)
    IN  /\ Alive
        /\ Record(w.d)
        /\ readyState' = w.rs
        /\ closeCode' = w.cc
        /\ IF w.threw
           THEN proc' = "exited" /\ exitCode' = 1 /\ exitCause' = "uncaught"
           ELSE proc' = "draining" /\ UNCHANGED << exitCode, exitCause >>
        /\ UNCHANGED << now, nextId, wssClients, clients,
                        lastActivity, pingInterval, drawingHistory, appended,
                        faulty, msgsLeft, lastPong >>

\* server.close's callback: every socket of the listening endpoint has closed.
DrainComplete ==
    /\ proc = "draining"
    /\ \A c \in Conns : readyState[c] \notin {"OPEN", "CLOSING"}
    /\ proc' = "exited" /\ exitCode' = 0 /\ exitCause' = "graceful"
    /\ Record(Nothing)
    /\ UNCHANGED << now, nextId, readyState, closeCode,
                    wssClients, clients, lastActivity, pingInterval,
                    drawingHistory, appended, faulty, msgsLeft, lastPong >>

\* Mutant: the forced exit reports success.
DrainTimeout_success ==
    /\ proc = "draining"
    /\ proc' = "exited" /\ exitCode' = 0 /\ exitCause' = "forced"
    /\ Record(Nothing)
    /\ UNCHANGED << now, nextId, readyState, closeCode, wssClients, clients,
                    lastActivity, pingInterval, drawingHistory, appended,
                    faulty, msgsLeft, lastPong >>

\* The 5 s timer set by shutdown() fires.
DrainTimeout ==
    /\ proc = "draining"
    /\ proc' = "exited" /\ exitCode' = 1 /\ exitCause' = "forced"
    /\ Record(Nothing)
    /\ UNCHANGED << now, nextId, readyState, closeCode,
                    wssClients, clients, lastActivity, pingInterval,
                    drawingHistory, appended, faulty, msgsLeft, lastPong >>

(***************************************************************************)
(* Environment of SpecFault: from now on send() and ping() on c throw.     *)
(***************************************************************************)
SendFault(c) ==
    /\ Alive
    /\ c \notin faulty
    /\ readyState[c] # "CLOSED"
    /\ Cardinality(faulty) < MaxFaults
    /\ faulty' = faulty \cup {c}
    /\ Record(Nothing)
    /\ UNCHANGED << proc, exitCode, exitCause, now, nextId,
                    readyState, closeCode, wssClients, clients, lastActivity,
                    pingInterval, drawingHistory, appended, msgsLeft, lastPong >>

(***************************************************************************)
(* Specifications.                                                         *)
(***************************************************************************)
Next ==
    \/ \E o \in Origins, r \in {"ignored", "raises"} : Handshake(o, r)
    \/ \E c \in Conns, f \in Frames : Message(c, f)
    \/ \E c \in Conns : Close(c)
    \/ \E c \in Conns : Probe(c)
    \/ \E c \in Conns : Pong(c)
    \/ \E c \in Conns : Error(c)
    \/ Sweep
    \/ Shutdown
    \/ DrainComplete
    \/ DrainTimeout

\* The server as the library runs it: send() on an open socket does not throw.
Spec == Init /\ [][Next]_vars

\* The server under the failures its try blocks are written for.
NextFault == Next \/ \E c \in Conns : SendFault(c)

\* Late in the server's run, nobody connected yet.
InitLate ==
    /\ proc = "running" /\ exitCode = -1 /\ exitCause = "none"
    /\ now = (MaxTicks - 1) * SweepPeriod
    /\ nextId = 1
    /\ readyState = [c \in Conns |-> "NONE"]
    /\ closeCode = [c \in Conns |-> 0]
    /\ wssClients = {}
    /\ clients = {}
    /\ lastActivity = [c \in Conns |-> 0]
    /\ lastPong = [c \in Conns |-> NoPong]
    /\ pingInterval = [c \in Conns |-> FALSE]
    /\ drawingHistory = << >>
    /\ appended = << >>
    /\ delivered = Nothing
    /\ firstMsg = [c \in Conns |-> NoMsg]
    /\ drawsTo = [c \in Conns |-> << >>]
    /\ notices = [c \in Conns |-> 0]
    /\ faulty = {}
    /\ msgsLeft = MaxMsgs
    /\ doneCalls = << >>
    /\ status = 0

SpecFault == InitLate /\ [][NextFault]_vars

\* Late in the server's run: connection 1 joined two sweep periods ago and has
\* been silent since, so the next sweep finds it past the threshold unless it
\* speaks first.
InitIdle ==
    /\ proc = "running" /\ exitCode = -1 /\ exitCause = "none"
    /\ now = (MaxTicks - 1) * SweepPeriod
    /\ nextId = 2
    /\ readyState = [c \in Conns |-> IF c = 1 THEN "OPEN" ELSE "NONE"]
    /\ closeCode = [c \in Conns |-> 0]
    /\ wssClients = {1}
    /\ clients = {1}
    /\ lastActivity = [c \in Conns |-> IF c = 1 THEN now - 2 * SweepPeriod ELSE 0]
    /\ lastPong = [c \in Conns |-> NoPong]
    /\ pingInterval = [c \in Conns |-> c = 1]
    /\ drawingHistory = << >>
    /\ appended = << >>
    /\ delivered = Nothing
    /\ firstMsg = [c \in Conns |-> IF c = 1 THEN InitMsg(<< >>) ELSE NoMsg]
    /\ drawsTo = [c \in Conns |-> << >>]
    /\ notices = [c \in Conns |-> 0]
    /\ faulty = {}
    /\ msgsLeft = MaxMsgs
    /\ doneCalls = << >>
    /\ status = 0

\* The same failures, with a connection the sweep is about to evict.
SpecIdle == InitIdle /\ [][NextFault]_vars

\* The server under the same failures, with the fairness of the library: a
\* socket that is closing or was destroyed emits 'close'.
LiveFault == InitLate /\ [][NextFault]_vars /\ WF_vars(\E c \in Conns : Close(c))

\* The fault-free server from the same state, with the fairness of the drain
\* timer: a timer that has been set fires.
LiveSpec == InitLate /\ [][Next]_vars /\ WF_vars(DrainTimeout)

\* The server late in its run, after connection 1 has drawn
\* MAX_HISTORY - Room strokes and left.
FullHistory ==
    [ i \in 1..(MAX_HISTORY - Room) |->
        MakeAction([shape |-> i, clientId |-> NoClient, timestamp |-> -1], 1, 0) ]

InitFull ==
    /\ proc = "running" /\ exitCode = -1 /\ exitCause = "none"
    /\ now = (MaxTicks - 1) * SweepPeriod
    /\ nextId = 2
    /\ readyState = [c \in Conns |-> IF c = 1 THEN "CLOSED" ELSE "NONE"]
    /\ closeCode = [c \in Conns |-> 0]
    /\ wssClients = {}
    /\ clients = {}
    /\ lastActivity = [c \in Conns |-> 0]
    /\ lastPong = [c \in Conns |-> NoPong]
    /\ pingInterval = [c \in Conns |-> FALSE]
    /\ drawingHistory = FullHistory
    /\ appended = FullHistory
    /\ delivered = Nothing
    /\ firstMsg = [c \in Conns |-> IF c = 1 THEN InitMsg(<< >>) ELSE NoMsg]
    /\ drawsTo = [c \in Conns |-> << >>]
    /\ notices = [c \in Conns |-> 0]
    /\ faulty = {}
    /\ msgsLeft = MaxMsgs + ExtraMsgs
    /\ doneCalls = << >>
    /\ status = 0

SpecFull == InitFull /\ [][Next]_vars

(***************************************************************************)
(* Properties.                                                             *)
(***************************************************************************)
Min(a, b) == IF a < b THEN a ELSE b

DrawFrame(p) == [ok |-> TRUE, type |-> "DRAW", data |-> p, Name |-> "", res |-> ""]
ChatFrame    == [ok |-> TRUE, type |-> "CHAT", data |-> NoPayload, Name |-> "ann", res |-> "hi"]
PingFrameIn  == [ok |-> TRUE, type |-> "PING", data |-> NoPayload, Name |-> "", res |-> ""]

\* C1: the history never holds more than 100 actions, and it is exactly the
\* last min(n, 100) of the n actions pushed so far, in push order.
C1_HistoryIsFifoWindow ==
    LET n == Len(appended)
        k == Min(n, 100)
    IN  /\ Len(drawingHistory) <= 100
        /\ drawingHistory = SubSeq(appended, n - k + 1, n)

\* A push has taken the length past 100 and the oldest action was evicted.
C1_Witness ==
    /\ Len(appended) > 100
    /\ Len(drawingHistory) = 100
    /\ drawingHistory[100] = appended[Len(appended)]

\* C2: a connection that comes into being is delivered, first of all, an INIT
\* whose payload is the history as it is when the handshake is accepted; the
\* first message a connection ever got is that INIT for as long as it lives,
\* and no action in it was drawn by the connection itself.
C2_InitIsFirstAndSnapshot ==
    [][ \A c \in Conns :
          /\ (readyState[c] = "NONE" /\ readyState'[c] # "NONE")
                => /\ firstMsg[c] = NoMsg
                   /\ Len(delivered'[c]) >= 1
                   /\ delivered'[c][1] = [type |-> "INIT", data |-> drawingHistory]
                   /\ firstMsg'[c] = [type |-> "INIT", data |-> drawingHistory]
          /\ (readyState[c] # "NONE")
                => /\ firstMsg'[c] = firstMsg[c]
                   /\ firstMsg[c].type = "INIT"
                   /\ \A i \in 1..Len(firstMsg[c].data) :
                          firstMsg[c].data[i].clientId # c
      ]_vars

\* A connection got a non-empty INIT and has since drawn itself.
C2_Witness ==
    \E c \in Conns :
        /\ firstMsg[c].type = "INIT"
        /\ Len(firstMsg[c].data) > 0
        /\ \E i \in 1..Len(appended) : appended[i].clientId = c

\* C3: when an open connection a sends a DRAW, each other open connection is
\* delivered exactly one DRAW carrying that action and nobody else, a
\* included, is delivered anything.
C3_DrawReachesOthersOnly ==
    [][ \A a \in Conns, p \in Payloads :
          (readyState[a] = "OPEN" /\ Message(a, DrawFrame(p)))
            => \A c \in Conns :
                 delivered'[c] =
                    IF c # a /\ readyState[c] = "OPEN"
                    THEN << [type |-> "DRAW",
                             data |-> [shape |-> p.shape, clientId |-> a,
                                       timestamp |-> now]] >>
                    ELSE << >>
      ]_vars

\* Three connections are open; one has drawn and the two others got its DRAW.
C3_Witness ==
    \E a \in Conns :
        /\ \A c \in Conns : readyState[c] = "OPEN"
        /\ delivered[a] = << >>
        /\ \A c \in Conns \ {a} :
              /\ Len(delivered[c]) = 1
              /\ delivered[c][1].type = "DRAW"
              /\ delivered[c][1].data.clientId = a
        /\ Cardinality(Conns \ {a}) >= 2

\* C4: when an open connection a sends a CHAT, every open connection, a
\* included, is delivered exactly one CHAT with that name and text, and the
\* history does not change.
C4_ChatReachesAll ==
    [][ \A a \in Conns :
          (readyState[a] = "OPEN" /\ Message(a, ChatFrame))
            => /\ \A c \in Conns :
                    readyState[c] = "OPEN"
                      => delivered'[c] = << [type |-> "CHAT", Name |-> "ann",
                                             res |-> "hi"] >>
               /\ delivered'[a] # << >>
               /\ drawingHistory' = drawingHistory
      ]_vars

\* Three connections are open and each has just been delivered the CHAT.
C4_Witness ==
    /\ Cardinality(Conns) >= 3
    /\ \A c \in Conns :
          /\ readyState[c] = "OPEN"
          /\ Len(delivered[c]) = 1
          /\ delivered[c][1].type = "CHAT"

\* C5 as stated: whenever a connection sends a PING, it is delivered exactly
\* one PONG, nobody else is delivered anything, and the history and the
\* registry do not change.
C5_PingAlwaysAnswered ==
    [][ \A a \in Conns :
          Message(a, PingFrameIn)
            => /\ delivered'[a] = << [type |-> "PONG", timestamp |-> now] >>
               /\ \A c \in Conns \ {a} : delivered'[c] = << >>
               /\ drawingHistory' = drawingHistory
               /\ clients' = clients /\ wssClients' = wssClients
      ]_vars

\* C5, amended: the same for a connection that is open when it sends the PING.
C5_OpenPingAnswered ==
    [][ \A a \in Conns :
          (readyState[a] = "OPEN" /\ Message(a, PingFrameIn))
            => /\ delivered'[a] = << [type |-> "PONG", timestamp |-> now] >>
               /\ \A c \in Conns \ {a} : delivered'[c] = << >>
               /\ drawingHistory' = drawingHistory
               /\ clients' = clients /\ wssClients' = wssClients
      ]_vars

\* A PONG has just been delivered while another connection is open.
C5_Witness ==
    \E a, b \in Conns :
        /\ a # b
        /\ readyState[a] = "OPEN" /\ readyState[b] = "OPEN"
        /\ delivered[a] = << [type |-> "PONG", timestamp |-> now] >>
        /\ delivered[b] = << >>

\* C6: a sweep force-closes and unregisters every registered connection whose
\* last activity is more than 300 s old, and a connection that is no longer
\* open never opens again and is delivered nothing: no broadcast, no reply,
\* no probe.
C6_IdleEvictedAndSilenced ==
    [][ \A c \in Conns :
          /\ (now' # now /\ c \in clients /\ now' - lastActivity[c] > 300000)
                => (c \notin clients' /\ readyState'[c] \in {"CLOSING", "CLOSED"})
          /\ (readyState[c] \in {"CLOSING", "CLOSED"})
                => (readyState'[c] \in {"CLOSING", "CLOSED"} /\ delivered'[c] = << >>)
      ]_vars

\* The sweep has evicted a connection whose socket has not closed yet.
C6_Witness ==
    \E c \in Conns :
        /\ proc = "running"
        /\ readyState[c] = "CLOSING"
        /\ closeCode[c] = 0
        /\ c \notin clients
        /\ c \in wssClients
        /\ now > 300000

\* C7: shutdown() delivers exactly one shutdown notice to every connection
\* that is open when it runs and then closes it with code 1000, however many
\* times the signal arrives and whether or not a send to some other
\* connection throws.
C7_ShutdownNotifiesAndClosesAll ==
    [][ Shutdown
          => \A c \in Conns :
                (readyState[c] = "OPEN" /\ c \notin faulty)
                  => /\ delivered'[c] = << [type |-> "SYSTEM",
                                            message |-> "Server is shutting down..."] >>
                     /\ notices'[c] = 1
                     /\ readyState'[c] = "CLOSING"
                     /\ closeCode'[c] = 1000
      ]_vars

\* C8: once shutdown() has run the process exits; it leaves the drain with
\* code 0 exactly when the endpoint's close callback runs, which needs every
\* socket closed, and with code 1 exactly when the drain timer fires.
C8_ShutdownExits ==
    /\ (proc = "draining") ~> (proc = "exited")
    /\ [][ (proc = "draining" /\ proc' = "exited")
             => \/ /\ exitCode' = 0 /\ exitCause' = "graceful"
                   /\ \A c \in Conns : readyState[c] \in {"NONE", "CLOSED"}
                \/ /\ exitCode' = 1 /\ exitCause' = "forced"
         ]_vars

\* The drain finished before the timer: a connection that got the notice has
\* closed and the process has exited with code 0.
C8_Witness ==
    /\ proc = "exited" /\ exitCode = 0
    /\ \E c \in Conns : notices[c] = 1 /\ readyState[c] = "CLOSED"

C10_ExactlyOneVerdict ==
    [][ \A o \in Origins, r \in {"ignored", "raises"} :
          Handshake(o, r) => (Len(doneCalls') = 1 /\ proc' = proc)
      ]_vars

\* C11: a message that does not parse, or whose type is not DRAW, CHAT or
\* PING, makes the server deliver nothing to anybody and changes neither the
\* history nor any socket's state nor the registry: a sender that was open is
\* still open and registered.
C11_BadMessageIgnored ==
    [][ \A a \in Conns, f \in Frames :
          ((~f.ok \/ f.type \notin {"DRAW", "CHAT", "PING"}) /\ Message(a, f))
            => /\ \A c \in Conns : delivered'[c] = << >>
               /\ drawingHistory' = drawingHistory
               /\ readyState' = readyState
               /\ clients' = clients /\ wssClients' = wssClients
               /\ readyState[a] = "OPEN" => (readyState'[a] = "OPEN" /\ a \in clients')
      ]_vars

\* The one message of the run has been handled, no stroke was recorded and the
\* latest callback delivered nothing, while a connection active in this sweep
\* period and another one are open and registered.
C11_Witness ==
    \E a, b \in Conns :
        /\ a # b
        /\ msgsLeft = 0
        /\ appended = << >>
        /\ \A c \in Conns : delivered[c] = << >>
        /\ readyState[a] = "OPEN" /\ readyState[b] = "OPEN"
        /\ a \in clients /\ b \in clients
        /\ lastActivity[a] = now /\ now >= 2 * 120000
        /\ \A c \in Conns : lastPong[c] = -1
        /\ lastActivity[b] < now

\* C12: in every broadcast of broadcastMessage (a DRAW, a CHAT, a join or a
\* leave notice), whichever recipients' send() throws, every other open
\* recipient is delivered the message exactly once, a recipient whose send
\* throws is delivered nothing, and the history and the registry change as
\* they do when no send throws.
C12_FailedSendIsolated ==
    [][ \A a \in Conns :
          /\ \A p \in Payloads :
                Message(a, DrawFrame(p))
                  => /\ \A c \in Conns \ {a} :
                          (c \in wssClients /\ readyState[c] = "OPEN")
                            => delivered'[c] =
                                 IF c \in faulty THEN << >>
                                 ELSE << [type |-> "DRAW",
                                          data |-> [shape |-> p.shape, clientId |-> a,
                                                    timestamp |-> now]] >>
                     /\ drawingHistory' =
                          IF Len(drawingHistory) >= 100
                          THEN Tail(Append(drawingHistory,
                                           [shape |-> p.shape, clientId |-> a,
                                            timestamp |-> now]))
                          ELSE Append(drawingHistory,
                                      [shape |-> p.shape, clientId |-> a,
                                       timestamp |-> now])
                     /\ clients' = clients /\ wssClients' = wssClients
          /\ Message(a, ChatFrame)
                => /\ \A c \in Conns :
                        (c \in wssClients /\ readyState[c] = "OPEN")
                          => delivered'[c] =
                               IF c \in faulty THEN << >>
                               ELSE << [type |-> "CHAT", Name |-> "ann", res |-> "hi"] >>
                   /\ drawingHistory' = drawingHistory
                   /\ clients' = clients /\ wssClients' = wssClients
          /\ Close(a)
                => /\ \A c \in Conns \ {a} :
                        (c \in wssClients /\ readyState[c] = "OPEN")
                          => delivered'[c] =
                               IF c \in faulty THEN << >>
                               ELSE << [type |-> "SYSTEM",
                                        message |-> "A user has left the whiteboard"] >>
                   /\ drawingHistory' = drawingHistory
                   /\ clients' = clients \ {a} /\ wssClients' = wssClients \ {a}
          /\ (readyState[a] = "NONE" /\ readyState'[a] = "OPEN")
                => /\ \A c \in Conns \ {a} :
                        (c \in wssClients /\ readyState[c] = "OPEN")
                          => delivered'[c] =
                               IF c \in faulty THEN << >>
                               ELSE << [type |-> "SYSTEM",
                                        message |-> "A new user has joined the whiteboard"] >>
                   /\ drawingHistory' = drawingHistory
                   /\ clients' = clients \cup {a} /\ wssClients' = wssClients \cup {a}
      ]_vars

\* A CHAT has just been broadcast: the send to open connection x threw, and
\* two open connections, one of them after x in wss.clients, got the CHAT.
C12_Witness ==
    \E x, b, c \in Conns :
        /\ x < b /\ b # c /\ c # x
        /\ x \in faulty /\ x \in wssClients /\ readyState[x] = "OPEN"
        /\ delivered[x] = << >>
        /\ readyState[b] = "OPEN" /\ readyState[c] = "OPEN"
        /\ delivered[b] = << [type |-> "CHAT", Name |-> "ann", res |-> "hi"] >>
        /\ delivered[c] = delivered[b]

\* C13: when a handshake is accepted, every other connection that is open at
\* that moment is delivered exactly one SYSTEM join notice and nothing else,
\* and no message delivered to the new connection is the join notice.
C13_JoinNoticeToOthers ==
    [][ \A a \in Conns :
          (readyState[a] = "NONE" /\ readyState'[a] = "OPEN")
            => /\ \A c \in Conns \ {a} :
                    readyState[c] = "OPEN"
                      => delivered'[c] =
                           << [type |-> "SYSTEM",
                               message |-> "A new user has joined the whiteboard"] >>
               /\ \A i \in 1..Len(delivered'[a]) :
                    delivered'[a][i] #
                       [type |-> "SYSTEM",
                        message |-> "A new user has joined the whiteboard"]
               /\ Len(delivered'[a]) = 2
      ]_vars

\* The third connection has just been accepted: it got its two initial
\* messages and the two connections opened before it got the join notice.
C13_Witness ==
    \E a \in Conns :
        /\ Cardinality(Conns \ {a}) >= 2
        /\ Len(delivered[a]) = 2 /\ delivered[a][1].type = "INIT"
        /\ \A c \in Conns \ {a} :
              /\ readyState[c] = "OPEN"
              /\ delivered[c] = << [type |-> "SYSTEM",
                                    message |-> "A new user has joined the whiteboard"] >>

\* C14: when a connection closes, whether the peer left, a probe failed or
\* the sweep evicted it, every connection that is still open (and whose send
\* does not throw) is delivered exactly one leave notice and nothing else,
\* the closed connection is delivered nothing and is not in the registry
\* afterwards, and the registry loses nothing else: for a connection the
\* sweep had already removed it does not change.  A leave notice is only
\* ever delivered by a close, a connection closes once, and a closed
\* connection stays closed and out of the registry.
C14_LeaveNoticeOncePerClose ==
    [][ \A a \in Conns :
          /\ (readyState[a] # "CLOSED" /\ readyState'[a] = "CLOSED")
                => /\ \A c \in Conns \ {a} :
                        (readyState[c] = "OPEN" /\ c \notin faulty)
                          => delivered'[c] =
                               << [type |-> "SYSTEM",
                                   message |-> "A user has left the whiteboard"] >>
                   /\ delivered'[a] = << >>
                   /\ a \notin clients'
                   /\ clients' = clients \ {a}
                   /\ a \notin clients => clients' = clients
                   /\ \A c \in Conns \ {a} : readyState'[c] = readyState[c]
          /\ (\E i \in 1..Len(delivered'[a]) :
                  delivered'[a][i] = [type |-> "SYSTEM",
                                      message |-> "A user has left the whiteboard"])
                => \E x \in Conns \ {a} :
                      readyState[x] # "CLOSED" /\ readyState'[x] = "CLOSED"
          /\ readyState[a] = "CLOSED"
                => (readyState'[a] = "CLOSED" /\ a \notin clients /\ a \notin clients')
      ]_vars

\* Nobody has spoken, so the last sweep found connection 1 idle and evicted
\* it; its socket has closed since, the handler found no entry to delete,
\* and the two connections still open got the leave notice.
C14_Witness ==
    /\ Cardinality(Conns) >= 3
    /\ readyState[1] = "CLOSED" /\ 1 \notin clients
    /\ msgsLeft = MaxMsgs
    /\ now = MaxTicks * 120000
    /\ \A c \in Conns \ {1} :
          /\ readyState[c] = "OPEN"
          /\ delivered[c] = << [type |-> "SYSTEM",
                                message |-> "A user has left the whiteboard"] >>

\* C15: a pong sets the last-pong timestamp of its connection's registry
\* entry and changes nothing else, the last-activity timestamps least of
\* all; the last-activity timestamp of a registered connection changes only
\* when a message of that connection is handled; and a sweep evicts a
\* connection whose last activity is more than 300 s old however recent its
\* last pong is.
C15_PongIsNotActivity ==
    [][ \A c \in Conns :
          /\ Pong(c)
                => /\ lastActivity' = lastActivity
                   /\ c \in clients => lastPong'[c] = now
                   /\ \A x \in Conns \ {c} : lastPong'[x] = lastPong[x]
                   /\ clients' = clients /\ readyState' = readyState
                   /\ drawingHistory' = drawingHistory
                   /\ \A x \in Conns : delivered'[x] = << >>
          /\ (c \in clients /\ c \in clients' /\ lastActivity'[c] # lastActivity[c])
                => (\E f \in Frames : Message(c, f)) /\ lastActivity'[c] = now
          /\ (now' # now /\ c \in clients /\ lastPong[c] # -1
                /\ now' - lastActivity[c] > 300000)
                => (c \notin clients' /\ readyState'[c] # "OPEN")
      ]_vars

\* An open connection has just answered a probe, two sweep periods after its
\* last activity: the coming sweep finds it 360 s idle.
C15_Witness ==
    \E c \in Conns :
        /\ c \in clients /\ readyState[c] = "OPEN" /\ pingInterval[c]
        /\ lastPong[c] = now
        /\ now - lastActivity[c] = 240000
        /\ now + 120000 - lastActivity[c] > 300000
        /\ proc = "running"

\* C16: when ping() on an open connection throws, the connection's probe
\* timer is cancelled and its socket destroyed in the same step; when a
\* connection closes its probe timer is cancelled; a cancelled timer is never
\* armed again and a probe frame is only ever sent by an armed timer to an
\* open socket; and a connection whose probe failed leaves the registry
\* eventually, as long as the process lives.
C16_FailedProbeEndsConnection ==
    /\ [][ \A c \in Conns :
             /\ (Probe(c) /\ readyState[c] = "OPEN" /\ c \in faulty)
                   => /\ ~pingInterval'[c]
                      /\ readyState'[c] = "CLOSING"
                      /\ delivered'[c] = << >>
             /\ (readyState[c] # "CLOSED" /\ readyState'[c] = "CLOSED")
                   => ~pingInterval'[c]
             /\ (readyState[c] # "NONE" /\ ~pingInterval[c])
                   => ~pingInterval'[c]
             /\ (\E i \in 1..Len(delivered'[c]) : delivered'[c][i] = [type |-> "ping"])
                   => (pingInterval[c] /\ readyState[c] = "OPEN" /\ c \notin faulty)
        ]_vars
    /\ \A c \in Conns :
          (c \in faulty /\ readyState[c] = "CLOSING" /\ ~pingInterval[c])
             ~> (c \notin clients \/ proc = "exited")

\* The probe of a registered connection has failed: its timer is cancelled
\* and its socket destroyed, the close event is still to come, and another
\* connection is open.
C16_Witness ==
    \E c, b \in Conns :
        /\ c \in faulty /\ readyState[c] = "CLOSING" /\ ~pingInterval[c]
        /\ c \in clients /\ c \in wssClients /\ closeCode[c] = 0
        /\ proc = "running"
        /\ readyState[b] = "OPEN" /\ pingInterval[b]

LastOf(q, k)   == SubSeq(q, Len(q) - k + 1, Len(q))
ByOthers(q, c) == SelectSeq(q, LAMBDA x : x.clientId # c)
IsPrefix(p, q) == Len(p) <= Len(q) /\ p = SubSeq(q, 1, Len(p))

\* C17: a DRAW is pushed onto the history in the step that broadcasts it, and
\* no connection is accepted in that step.  So for every accepted connection
\* c the actions ever pushed split at c's accept: its INIT payload is the
\* history of that moment (the last 100 at most of the actions pushed until
\* then), and the DRAW broadcasts delivered to c since are, while c is open,
\* exactly the actions pushed after that moment by the other connections,
\* each once; once c is no longer open they are a prefix of those.
C17_InitOrBroadcast ==
    /\ [](\A c \in Conns :
            firstMsg[c].type = "INIT"
              => \E m \in 0..Len(appended) :
                    /\ Len(firstMsg[c].data) = Min(m, 100)
                    /\ Len(drawsTo[c]) <= Len(appended) - m
                    /\ firstMsg[c].data = LastOf(SubSeq(appended, 1, m), Min(m, 100))
                    /\ LET since == ByOthers(SubSeq(appended, m + 1, Len(appended)), c)
                       IN  IF readyState[c] = "OPEN"
                           THEN drawsTo[c] = since
                           ELSE IsPrefix(drawsTo[c], since))
    /\ [][ \A a \in Conns, p \in Payloads :
             Message(a, DrawFrame(p))
               => /\ drawingHistory'[Len(drawingHistory')] =
                        [shape |-> p.shape, clientId |-> a, timestamp |-> now]
                  /\ appended' = Append(appended, [shape |-> p.shape, clientId |-> a,
                                                    timestamp |-> now])
                  /\ nextId' = nextId /\ firstMsg' = firstMsg
        ]_vars

\* A connection was accepted when the history already held a stroke of
\* another connection, which is in its INIT; that connection has drawn again
\* since and the newcomer got exactly that stroke as a DRAW broadcast.
C17_Witness ==
    \E c, a \in Conns :
        /\ a # c /\ readyState[c] = "OPEN"
        /\ firstMsg[c].type = "INIT"
        /\ Len(firstMsg[c].data) = 100
        /\ firstMsg[c].data[100].clientId = a
        /\ firstMsg[c].data[100] = appended[Len(appended) - 1]
        /\ drawsTo[c] = << appended[Len(appended)] >>
        /\ drawsTo[c][1].clientId = a

\* C18: a DRAW that is handled goes to the end of the history and of every
\* open recipient's deliveries, behind everything handled before it; so the
\* DRAW broadcasts a connection has been delivered are in the order in which
\* their actions were pushed.
C18_BroadcastOrderIsPushOrder ==
    /\ [](\A c \in Conns :
            \A i, j \in 1..Len(drawsTo[c]) :
               i < j => \E x, y \in 1..Len(appended) :
                           /\ x < y
                           /\ appended[x] = drawsTo[c][i]
                           /\ appended[y] = drawsTo[c][j])
    /\ [][ \A a \in Conns, p \in Payloads :
             Message(a, DrawFrame(p))
               => LET act == [shape |-> p.shape, clientId |-> a, timestamp |-> now]
                  IN  /\ appended' = Append(appended, act)
                      /\ drawingHistory' =
                            IF Len(drawingHistory) >= 100
                            THEN Append(Tail(drawingHistory), act)
                            ELSE Append(drawingHistory, act)
                      /\ \A c \in Conns \ {a} :
                            readyState[c] = "OPEN"
                              => drawsTo'[c] = Append(drawsTo[c], act)
        ]_vars

\* A connection has sent two different strokes, and a connection that was
\* open for both got them in the order they were pushed.
C18_Witness ==
    \E a, b \in Conns :
        /\ a # b /\ readyState[b] = "OPEN"
        /\ Len(drawsTo[b]) = 2
        /\ drawsTo[b][1].clientId = a /\ drawsTo[b][2].clientId = a
        /\ drawsTo[b][1].shape # drawsTo[b][2].shape
        /\ drawsTo[b][1] = appended[Len(appended) - 1]
        /\ drawsTo[b][2] = appended[Len(appended)]
        /\ drawingHistory[100] = drawsTo[b][2] /\ drawingHistory[99] = drawsTo[b][1]

\* C19: a sweep destroys the socket of, and removes from the registry,
\* exactly the registered connections whose last activity is more than 300 s
\* before the sweep; every other connection keeps its socket state, its
\* registry entry and the entry's timestamps; and the sweep changes neither
\* the history nor wss.clients and delivers nothing.
C19_SweepEvictsExactlyIdle ==
    [][ Sweep
          => /\ \A c \in Conns :
                  IF c \in clients /\ now' - lastActivity[c] > 300000
                  THEN c \notin clients' /\ readyState'[c] = "CLOSING"
                  ELSE /\ (c \in clients' <=> c \in clients)
                       /\ readyState'[c] = readyState[c]
                       /\ lastActivity'[c] = lastActivity[c]
                       /\ lastPong'[c] = lastPong[c]
             /\ drawingHistory' = drawingHistory
             /\ wssClients' = wssClients
             /\ \A c \in Conns : delivered'[c] = << >>
      ]_vars

\* The third sweep has just run: it evicted a connection whose socket has not
\* closed yet and kept one that was active 240 s ago.
C19_Witness ==
    \E c, k \in Conns :
        /\ now = 360000
        /\ \A x \in Conns : delivered[x] = << >>
        /\ readyState[c] = "CLOSING" /\ c \notin clients /\ c \in wssClients
        /\ pingInterval[c] /\ closeCode[c] = 0
        /\ readyState[k] = "OPEN" /\ k \in clients
        /\ now - lastActivity[k] = 240000
        /\ proc = "running"

\* C20: the action a DRAW pushes and broadcasts has the sender's connection
\* id as clientId and the time of handling as timestamp, whatever clientId
\* and timestamp fields the payload has; every action in the history carries
\* the id of an accepted connection and a time of the server's clock; and a
\* step leaves the actions in the history as they are, in place, except that
\* a push may drop the oldest.
C20_ServerStampsActions ==
    /\ [](\A i \in 1..Len(drawingHistory) :
            /\ drawingHistory[i].clientId \in 1..(nextId - 1)
            /\ drawingHistory[i].timestamp \in 0..now
            /\ drawingHistory[i].timestamp % 120000 = 0)
    /\ [][ /\ \A a \in Conns, p \in Payloads :
               Message(a, DrawFrame(p))
                 => /\ drawingHistory'[Len(drawingHistory')].clientId = a
                    /\ drawingHistory'[Len(drawingHistory')].timestamp = now
                    /\ drawingHistory'[Len(drawingHistory')].shape = p.shape
                    /\ \A c \in Conns :
                         \A i \in 1..Len(delivered'[c]) :
                            /\ delivered'[c][i].type = "DRAW"
                            /\ delivered'[c][i].data = drawingHistory'[Len(drawingHistory')]
           /\ \E k \in {0, 1} :
                 /\ k <= Len(drawingHistory)
                 /\ Len(drawingHistory') >= Len(drawingHistory) - k
                 /\ \A i \in 1..(Len(drawingHistory) - k) :
                       drawingHistory'[i] = drawingHistory[i + k]
        ]_vars

\* A payload with clientId and timestamp fields of its own was drawn on a
\* full history: the oldest action is gone, the new one carries its sender's
\* id and the server's time, and an open connection got it so.
C20_Witness ==
    \E a, b \in Conns :
        /\ a # 1 /\ a # b
        /\ Len(appended) > 100 /\ Len(drawingHistory) = 100
        /\ drawingHistory[100].shape = 2
        /\ drawingHistory[100].clientId = a
        /\ drawingHistory[100].timestamp = now /\ now # 7
        /\ readyState[b] = "OPEN"
        /\ delivered[b] = << [type |-> "DRAW", data |-> drawingHistory[100]] >>

====
